---------------------------- MODULE Spec2Model ----------------------------
(***************************************************************************)
(* Verification model of curve25519-voi's variable-time multi-scalar       *)
(* evaluator edwardsMulAbglsvPorninVartime (curve package) and of the      *)
(* X25519 wrapper (primitives/x25519).                                     *)
(*                                                                         *)
(* TLC's integers are 32 bits wide, so the arithmetic is carried out in a  *)
(* scaled-down instance that keeps the layout of the original:            *)
(*   - a scalar buffer is ScalarSize = 2 bytes of 8 bits (32 in the code), *)
(*     and the split copies its lower and upper half (1 byte for 16);      *)
(*   - the group order is L = 2^12 + 61, a prime just above a power of two *)
(*     that leaves the three top bits of the buffer clear, as              *)
(*     l = 2^252 + 27742...493 does in 32 bytes;                           *)
(*   - the Edwards group is the cyclic group of order 8*L, written as      *)
(*     Z_8 x Z_L: a point is a pair <<t, p>> of its torsion component and  *)
(*     its component in the prime-order subgroup.  Coordinate systems      *)
(*     (projective, completed, extended, Niels) are forms of the same      *)
(*     group element and are not distinguished.                            *)
(* The window widths 5 and 8 and the table sizes 8 and 64 are the code's.  *)
(***************************************************************************)
EXTENDS Integers, Sequences, FiniteSets, TLC

\* ------------------------------------------------------------------------
\* Scalar ring (package curve/scalar), scaled.
\* ------------------------------------------------------------------------

\* Bytes of a serialized scalar (scalar.ScalarSize, 32 in the code).
ScalarSize == 2

\* Half of the scalar buffer, the 16 of eBuf[:16] and dbBuf[16:].
HalfSize == 1

\* Order of the prime-order subgroup (l = 2^252 + 27742317777372353535851937790883648493).
L == 2^12 + 61

\* Bits of a scalar buffer, and of its lower half.
ScalarBits == 8 * ScalarSize

HalfBits == 8 * HalfSize

\* Little-endian value of a byte sequence.
RECURSIVE FromBytes(_)
FromBytes(buf) ==
    IF Len(buf) = 0 THEN 0 ELSE buf[1] + 256 * FromBytes(Tail(buf))

\* Scalar.ToBytes: the canonical little-endian serialization into ScalarSize bytes.
ToBytes(s) == [k \in 1..ScalarSize |-> (s \div (256 ^ (k - 1))) % 256]

\* Scalar.SetBits: loads the low 8*ScalarSize - 1 bits of the buffer as they
\* are.  ScalarMult depends on the clamped bit pattern being kept; the
\* evaluator only loads values below L, which a reduction would not change.
SetBits(buf) == FromBytes(buf) % (2 ^ (ScalarBits - 1))

\* Scalar.Mul and Scalar.Neg, modulo the group order.
ScMul(x, y) == (x * y) % L

ScNeg(x) == (L - x) % L

\* Scalar.NonAdjacentForm(w): the width-w signed digits of k, least
\* significant first, one per bit of the buffer; a nonzero digit is odd, of
\* magnitude below 2^(w-1), and is followed by at least w-1 zero digits.
RECURSIVE NafFrom(_, _, _)
NafFrom(k, w, n) ==
    IF n = 0 THEN <<>>
    ELSE IF k % 2 = 1
         THEN LET m == k % (2 ^ w)
                  d == IF m >= 2 ^ (w - 1) THEN m - 2 ^ w ELSE m
              IN  <<d>> \o NafFrom((k - d) \div 2, w, n - 1)
         ELSE <<0>> \o NafFrom(k \div 2, w, n - 1)

NonAdjacentForm(k, w) == NafFrom(k, w, ScalarBits)

\* The integer a digit sequence stands for.
RECURSIVE NafValue(_)
NafValue(naf) ==
    IF Len(naf) = 0 THEN 0 ELSE naf[1] + 2 * NafValue(Tail(naf))

\* ------------------------------------------------------------------------
\* Lattice reducer (package internal/lattice).
\* ------------------------------------------------------------------------

Dot(u, v) == u[1] * v[1] + u[2] * v[2]

\* Nearest integer to n / d, for d > 0.
RoundDiv(n, d) == (2 * n + d) \div (2 * d)

\* Two-row Gauss reduction: with v the shorter row, replace u by u - q*v,
\* q the nearest-integer quotient of the inner products, until v stays the
\* shorter row; v is the short vector.
RECURSIVE GaussReduce(_, _)
GaussReduce(u, v) ==
    LET q  == RoundDiv(Dot(u, v), Dot(v, v))
        u2 == <<u[1] - q * v[1], u[2] - q * v[2]>>
    IN  IF Dot(u2, u2) >= Dot(v, v) THEN v ELSE GaussReduce(v, u2)

\* lattice.FindShortVector(a): a short (d0, d1) with d0 = a*d1 (mod L),
\* from the basis {(L, 0), (a, 1)}.
FindShortVector(k) == GaussReduce(<<L, 0>>, <<k, 1>>)

IsNegative(d) == d < 0

Abs(d) == IF d < 0 THEN -d ELSE d

\* SignedInteger.ToScalar: widens a magnitude into a scalar.
ToScalar(m) == m % L

\* ------------------------------------------------------------------------
\* Edwards group (package curve).
\* ------------------------------------------------------------------------

\* Cofactor of the curve.
Cofactor == 8

Identity == <<0, 0>>

\* The Ed25519 basepoint, of order L; its Montgomery u-coordinate encodes as 9.
B == <<0, 9>>

PAdd(P, Q) == <<(P[1] + Q[1]) % Cofactor, (P[2] + Q[2]) % L>>

PNeg(P) == <<(Cofactor - P[1]) % Cofactor, (L - P[2]) % L>>

PSub(P, Q) == PAdd(P, PNeg(Q))

PDouble(P) == PAdd(P, P)

\* [k]P for an integer k of either sign.
PMul(k, P) == <<(k * P[1]) % Cofactor, (k * P[2]) % L>>


\* ------------------------------------------------------------------------
\* NAF lookup tables.
\* ------------------------------------------------------------------------

\* The odd multiples P, 3P, 5P, ... of P: one doubling, then additions of 2P.
RECURSIVE OddMultiples(_, _)
OddMultiples(P, n) ==
    IF n = 1 THEN <<P>>
    ELSE LET prev == OddMultiples(P, n - 1)
         IN  Append(prev, PAdd(prev[n - 1], PDouble(P)))

\* newProjectiveNielsPointNafLookupTable: the 8 entries of a width-5 table.
newProjectiveNielsPointNafLookupTable(P) == OddMultiples(P, 8)

\* newCachedPointNafLookupTable: the same table in cached form.
newCachedPointNafLookupTable(P) == OddMultiples(P, 8)

\* [2^128]B, the basepoint shifted by the width of the lower half.
B_SHL_128 == PMul(2 ^ HalfBits, B)

\* The static width-8 tables of B and of [2^128]B (64 entries each).
constAFFINE_ODD_MULTIPLES_OF_BASEPOINT == OddMultiples(B, 64)

constAFFINE_ODD_MULTIPLES_OF_B_SHL_128 == OddMultiples(B_SHL_128, 64)

constVECTOR_ODD_MULTIPLES_OF_BASEPOINT == OddMultiples(B, 64)

constVECTOR_ODD_MULTIPLES_OF_B_SHL_128 == OddMultiples(B_SHL_128, 64)

\* Lookup(x): entry x/2 of the table (0-based in the code), which for an odd
\* x is [x]P.
Lookup(tbl, x) == tbl[(x \div 2) + 1]

\* The conversion uint8(x) of an int8 digit.
Uint8(x) == x % 256

\* ------------------------------------------------------------------------
\* The evaluator's setup, shared text of the Generic and Vector functions.
\* ------------------------------------------------------------------------

\* Mutants of MoveSigns: the sign of d0 not moved onto A; the two branches
\* of d1 exchanged on C; the sign of d1 not moved onto b; C negated in both
\* branches.
MoveSigns_KeepA(d, pA, sb, pC) ==
    [ p_A  |-> pA,
      s_b  |-> IF IsNegative(d[2]) THEN ScNeg(sb) ELSE sb,
      negC |-> IF IsNegative(d[2]) THEN pC ELSE PNeg(pC),
      d_0  |-> ToScalar(Abs(d[1])),
      d_1  |-> ToScalar(Abs(d[2])) ]

MoveSigns_SwapC(d, pA, sb, pC) ==
    [ p_A  |-> IF IsNegative(d[1]) THEN PNeg(pA) ELSE pA,
      s_b  |-> IF IsNegative(d[2]) THEN ScNeg(sb) ELSE sb,
      negC |-> IF IsNegative(d[2]) THEN PNeg(pC) ELSE pC,
      d_0  |-> ToScalar(Abs(d[1])),
      d_1  |-> ToScalar(Abs(d[2])) ]

MoveSigns_KeepB(d, pA, sb, pC) ==
    [ p_A  |-> IF IsNegative(d[1]) THEN PNeg(pA) ELSE pA,
      s_b  |-> sb,
      negC |-> IF IsNegative(d[2]) THEN pC ELSE PNeg(pC),
      d_0  |-> ToScalar(Abs(d[1])),
      d_1  |-> ToScalar(Abs(d[2])) ]

MoveSigns_NegC(d, pA, sb, pC) ==
    [ p_A  |-> IF IsNegative(d[1]) THEN PNeg(pA) ELSE pA,
      s_b  |-> IF IsNegative(d[2]) THEN ScNeg(sb) ELSE sb,
      negC |-> PNeg(pC),
      d_0  |-> ToScalar(Abs(d[1])),
      d_1  |-> ToScalar(Abs(d[2])) ]

\* Moves the signs of d0 and d1 into the bases and scalars.
MoveSigns(d, pA, sb, pC) ==
    [ p_A  |-> IF IsNegative(d[1]) THEN PNeg(pA) ELSE pA,
      s_b  |-> IF IsNegative(d[2]) THEN ScNeg(sb) ELSE sb,
      negC |-> IF IsNegative(d[2]) THEN pC ELSE PNeg(pC),
      d_0  |-> ToScalar(Abs(d[1])),
      d_1  |-> ToScalar(Abs(d[2])) ]

\* copy(dst[:n], src): overwrites the first min(n, len(src)) bytes of dst.
CopyPrefix(dst, n, src) ==
    [k \in 1..Len(dst) |->
        IF k <= n /\ k <= Len(src) THEN src[k] ELSE dst[k]]

\* Mutant of SplitScalar: the second copy lands in the upper half of eBuf,
\* which then still holds e_0 in its lower half.
SplitScalar_UpperCopy(dbv) ==
    LET buf   == ToBytes(dbv)
        zero  == [k \in 1..ScalarSize |-> 0]
        eBuf1 == CopyPrefix(zero, HalfSize, SubSeq(buf, 1, HalfSize))
        eBuf2 == [k \in 1..ScalarSize |-> IF k > HalfSize THEN buf[k] ELSE eBuf1[k]]
    IN  [ dbBuf |-> buf, e_0 |-> SetBits(eBuf1), e_1 |-> SetBits(eBuf2),
          eBuf |-> eBuf2 ]

\* Serializes db and loads its two halves through the zeroed buffer eBuf.
SplitScalar(dbv) ==
    LET buf   == ToBytes(dbv)
        zero  == [k \in 1..ScalarSize |-> 0]
        eBuf1 == CopyPrefix(zero, HalfSize, SubSeq(buf, 1, HalfSize))
        eBuf2 == CopyPrefix(eBuf1, HalfSize, SubSeq(buf, HalfSize + 1, ScalarSize))
    IN  [ dbBuf |-> buf, e_0 |-> SetBits(eBuf1), e_1 |-> SetBits(eBuf2),
          eBuf |-> eBuf2 ]

\* Mutant of StartIndex: the scan without its break ends at 0.
StartIndex_NoBreak(n0, n1, n2, n3, j) == 0

\* The starting index: j runs from the top down and stops at the first
\* position where one of the four digit sequences is nonzero (0 if none is).
RECURSIVE StartIndex(_, _, _, _, _)
StartIndex(n0, n1, n2, n3, j) ==
    IF j = 0 \/ n0[j + 1] # 0 \/ n1[j + 1] # 0 \/ n2[j + 1] # 0 \/ n3[j + 1] # 0
    THEN j
    ELSE StartIndex(n0, n1, n2, n3, j - 1)

\* Mutant of NielsDigit: the first test is d >= 0, so a zero digit looks up.
NielsDigit_NonNeg(t, d, tbl) ==
    IF d >= 0
    THEN [pt |-> PAdd(t, Lookup(tbl, Uint8(d))), arg |-> {Uint8(d)}]
    ELSE [pt |-> PSub(t, Lookup(tbl, Uint8(-d))), arg |-> {Uint8(-d)}]

\* Mutant of CachedDigit: a negative digit adds the entry of its magnitude.
CachedDigit_AddOnly(t, d, tbl) ==
    IF d > 0
    THEN [pt |-> PAdd(t, Lookup(tbl, Uint8(d))), arg |-> {Uint8(d)}]
    ELSE IF d < 0
         THEN [pt |-> PAdd(t, Lookup(tbl, Uint8(-d))), arg |-> {Uint8(-d)}]
         ELSE [pt |-> t, arg |-> {}]

\* One table's contribution at a digit d, mixed model: add the entry for a
\* positive digit, subtract the entry of the magnitude for a negative one.
\* arg records the value Lookup was called with.
NielsDigit(t, d, tbl) ==
    IF d > 0
    THEN [pt |-> PAdd(t, Lookup(tbl, Uint8(d))), arg |-> {Uint8(d)}]
    ELSE IF d < 0
         THEN [pt |-> PSub(t, Lookup(tbl, Uint8(-d))), arg |-> {Uint8(-d)}]
         ELSE [pt |-> t, arg |-> {}]

\* The same, extended model.
CachedDigit(t, d, tbl) ==
    IF d > 0
    THEN [pt |-> PAdd(t, Lookup(tbl, Uint8(d))), arg |-> {Uint8(d)}]
    ELSE IF d < 0
         THEN [pt |-> PSub(t, Lookup(tbl, Uint8(-d))), arg |-> {Uint8(-d)}]
         ELSE [pt |-> t, arg |-> {}]

\* ------------------------------------------------------------------------
\* Package x25519.
\* ------------------------------------------------------------------------

\* Size of the point input to X25519 (32 in the code).
PointSize == 2

\* var basePoint = [32]byte{9, 0, ..., 0}
basePoint == [k \in 1..PointSize |-> IF k = 1 THEN 9 ELSE 0]

\* clampScalar: s[0] &= 248; s[31] &= 127; s[31] |= 64.
clampScalar(s) ==
    [k \in 1..Len(s) |->
        LET lo == IF k = 1 THEN s[k] - (s[k] % 8) ELSE s[k]
            hi == IF k = Len(s) THEN lo % 128 ELSE lo
        IN  IF k = Len(s) /\ (hi \div 64) % 2 = 0 THEN hi + 64 ELSE hi]

\* The group element a Montgomery u-coordinate stands for, and back: u
\* counts the elements of Z_8 x Z_L, the low-order points being the
\* multiples of L and 9 the basepoint.  (The top bit of u is masked, as in
\* RFC 7748; the identification of P with -P is not modelled.)
MontDecode(buf) ==
    LET u == FromBytes(buf) % (2 ^ (8 * PointSize - 1))
    IN  <<(u \div L) % Cofactor, u % L>>

MontEncode(P) ==
    [k \in 1..PointSize |-> ((P[1] * L + P[2]) \div (256 ^ (k - 1))) % 256]

\* MontgomeryPoint.Mul: the ladder, by the scalar's bits as loaded.
MontMul(buf, s) == MontEncode(PMul(s, MontDecode(buf)))

\* ScalarMult(dst, in, base): the value left in dst.
ScalarMult(in, base) == MontMul(base, SetBits(clampScalar(in)))

\* ScalarBaseMult(dst, in): the value left in dst.
ScalarBaseMult(in) == MontEncode(PMul(SetBits(clampScalar(in)), B))

\* checkBasepoint: whether the global Basepoint still holds 9, 0, ..., 0.
checkBasepoint(bp) == bp = basePoint

\* Mutant of x25519: the length of point is checked before that of scalar.
x25519_PointFirst(scalar, point, isBase, bp) ==
    IF Len(point) # PointSize
    THEN [kind |-> "err", val |-> <<>>, err |-> "bad point length"]
    ELSE IF Len(scalar) # ScalarSize
    THEN [kind |-> "err", val |-> <<>>, err |-> "bad scalar length"]
    ELSE IF isBase
    THEN IF checkBasepoint(bp)
         THEN [kind |-> "ok", val |-> ScalarBaseMult(scalar), err |-> ""]
         ELSE [kind |-> "panic", val |-> <<>>,
               err |-> "x25519: global Basepoint value was modified"]
    ELSE LET dst  == ScalarMult(scalar, point)
             zero == [k \in 1..PointSize |-> 0]
         IN  IF dst = zero
             THEN [kind |-> "err", val |-> <<>>,
                   err |-> "bad input point: low order point"]
             ELSE [kind |-> "ok", val |-> dst, err |-> ""]

\* x25519(dst, scalar, point), with isBase telling that point starts at
\* &Basepoint[0] and bp the bytes the global Basepoint holds: what the call
\* returns, or that it panics.
x25519(scalar, point, isBase, bp) ==
    IF Len(scalar) # ScalarSize
    THEN [kind |-> "err", val |-> <<>>, err |-> "bad scalar length"]
    ELSE IF Len(point) # PointSize
    THEN [kind |-> "err", val |-> <<>>, err |-> "bad point length"]
    ELSE IF isBase
    THEN IF checkBasepoint(bp)
         THEN [kind |-> "ok", val |-> ScalarBaseMult(scalar), err |-> ""]
         ELSE [kind |-> "panic", val |-> <<>>,
               err |-> "x25519: global Basepoint value was modified"]
    ELSE LET dst  == ScalarMult(scalar, point)
             zero == [k \in 1..PointSize |-> 0]
         IN  IF dst = zero
             THEN [kind |-> "err", val |-> <<>>,
                   err |-> "bad input point: low order point"]
             ELSE [kind |-> "ok", val |-> dst, err |-> ""]

\* ------------------------------------------------------------------------
\* Bounds of the model.
\* ------------------------------------------------------------------------

\* Number of generic scalars a beside the special ones.
NumA == 4

\* Number of generic scalars b beside the special ones.
NumB == 2

\* Number of generic points beside the identity and the basepoint.
NumP == 3

\* Calls of the evaluator on one set of arguments (the backend alternates).
MaxCalls == 2

\* Number of generic X25519 scalars and points.
NumX == 3

\* Generic scalars a: their short vectors (-3, -64), (-25, 18), (-21, -58),
\* (29, -11), (55, 28), (-5, -34), (-28, 31), (47, -35) have every combination
\* of signs, and digits of both signs in their width-5 expansions.
GenericA == <<65, 2539, 3799, 1509, 1932, 856, 4022, 1899>>

ScalarsA == {0, 1, 2, L - 1} \cup {GenericA[k] : k \in 1..NumA}

ScalarsB == {0, 1} \cup {(k * 2963 + 300) % L : k \in 0..(NumB - 1)}

\* Generic points: the first in the prime-order subgroup, the following ones
\* with a torsion component.
GenericPoints == {<<(k - 1) % Cofactor, (k * 1531) % L>> : k \in 1..NumP}

PointsA == {B} \cup GenericPoints

\* The points C tried with (a, A, b): the C that makes the verification
\* equation hold, and others.
PointsC(sa, pA, sb) ==
    {PAdd(PMul(sa, pA), PMul(sb, B)), B} \cup GenericPoints

\* Scalars given to X25519: of the right length, and one byte short or long.
XScalars ==
    {<<(k * 83) % 256, (k * 151) % 256>> : k \in 0..NumX}
        \cup {<<5>>, <<1, 2, 3>>}

\* Points given to X25519 in a slice of their own: a copy of the basepoint,
\* the low-order points (the multiples of L), generic points, and slices one
\* byte short or long.
XPoints ==
    {basePoint} \cup {MontEncode(<<k, 0>>) : k \in 0..NumX}
        \cup {<<(k * 57) % 256, (k * 29) % 128>> : k \in 1..NumX}
        \cup {<<9>>, <<9, 0, 0>>}

\* ------------------------------------------------------------------------
\* State.
\* ------------------------------------------------------------------------

VARIABLES
    a, b,            \* the scalar arguments
    A0, C0,          \* the points the caller passed as A and C
    mem,             \* the EdwardsPoint objects "A", "C" and "O" (a separate receiver)
    outRef,          \* the object out points to: "O", or "A" or "C" when it aliases
    supportsVectorizedEdwards,
    pc,              \* position in the call
    backend,         \* the function running: "generic" or "vector"
    calls,           \* calls made on these arguments
    d0, d1,          \* the signed pair of FindShortVector
    p_A, negC, s_b, d_0, d_1,
    db, dbBuf, eBuf, e_0, e_1,
    d_0_naf, e_0_naf, e_1_naf, d_1_naf,
    i,
    tableA, tableNegC,
    r,               \* the accumulator of the Generic function (projective)
    q,               \* the accumulator of the Vector function (extended)
    lookups,         \* per table, the values Lookup was called with in the last iteration
    iterations,      \* loop iterations run in this call
    outWrites,       \* writes to out in this call, each with the iterations run before it
    results,         \* <<backend, result>> of every finished call
    Basepoint,       \* the bytes of the exported slice x25519.Basepoint
    xOp,             \* the last x25519 operation: "X25519", "ScalarMult", "write"
    xScalar, xPoint, \* its scalar and point arguments
    xIsBasepoint,    \* whether point was (a prefix of) the Basepoint slice itself
    xResult,         \* what X25519 returned
    smDst            \* what ScalarMult left in dst

args     == <<a, b, A0, C0, outRef, supportsVectorizedEdwards>>
signVars == <<d0, d1, p_A, negC, s_b, d_0, d_1>>
splitVars == <<db, dbBuf, eBuf, e_0, e_1>>
nafVars  == <<d_0_naf, e_0_naf, e_1_naf, d_1_naf, tableA, tableNegC>>
loopVars == <<i, r, q, lookups, iterations>>
evalVars == <<args, mem, pc, backend, calls, signVars, splitVars, nafVars,
              loopVars, outWrites, results>>

xVars == <<Basepoint, xOp, xScalar, xPoint, xIsBasepoint, xResult, smDst>>

NoResult == [kind |-> "none", val |-> <<>>, err |-> ""]

NoLookups == [A |-> {}, B |-> {}, B_SHL_128 |-> {}, NegC |-> {}]

\* The frame of a call before its first statement: Go's zero values.
FreshFrame ==
    /\ d0 = 0 /\ d1 = 0
    /\ p_A = Identity /\ negC = Identity /\ s_b = 0 /\ d_0 = 0 /\ d_1 = 0
    /\ db = 0 /\ dbBuf = <<>> /\ eBuf = <<>> /\ e_0 = 0 /\ e_1 = 0
    /\ d_0_naf = <<>> /\ e_0_naf = <<>> /\ e_1_naf = <<>> /\ d_1_naf = <<>>
    /\ tableA = <<>> /\ tableNegC = <<>>
    /\ i = 0 /\ r = Identity /\ q = Identity /\ lookups = NoLookups /\ iterations = 0
    /\ outWrites = <<>>

\* The same frame, entered by a further call.
FreshFrameNext ==
    /\ d0' = 0 /\ d1' = 0
    /\ p_A' = Identity /\ negC' = Identity /\ s_b' = 0 /\ d_0' = 0 /\ d_1' = 0
    /\ db' = 0 /\ dbBuf' = <<>> /\ eBuf' = <<>> /\ e_0' = 0 /\ e_1' = 0
    /\ d_0_naf' = <<>> /\ e_0_naf' = <<>> /\ e_1_naf' = <<>> /\ d_1_naf' = <<>>
    /\ tableA' = <<>> /\ tableNegC' = <<>>
    /\ i' = 0 /\ r' = Identity /\ q' = Identity /\ lookups' = NoLookups /\ iterations' = 0
    /\ outWrites' = <<>>

EvalInit ==
    /\ a \in ScalarsA
    /\ b \in ScalarsB
    /\ A0 \in PointsA
    /\ C0 \in PointsC(a, A0, b)
    /\ outRef \in {"O", "A", "C"}
    /\ supportsVectorizedEdwards \in BOOLEAN
    /\ mem = [A |-> A0, C |-> C0, O |-> Identity]
    /\ pc = "call"
    /\ backend = "none"
    /\ calls = 1
    /\ results = {}
    /\ FreshFrame

\* ------------------------------------------------------------------------
\* edwardsMulAbglsvPorninVartime: the dispatch.
\* ------------------------------------------------------------------------

Dispatch ==
    /\ pc = "call"
    /\ backend' = IF supportsVectorizedEdwards THEN "vector" ELSE "generic"
    /\ pc' = "signs"
    /\ UNCHANGED <<xVars, args, mem, calls, signVars, splitVars, nafVars, loopVars,
                   outWrites, results>>

\* ------------------------------------------------------------------------
\* edwardsMulAbglsvPorninVartimeGeneric.
\* ------------------------------------------------------------------------

\* Find a short vector and move its signs into the bases and scalars.
GenericSigns ==
    /\ pc = "signs" /\ backend = "generic"
    /\ LET d == FindShortVector(a)
           m == MoveSigns(d, mem["A"], b, mem["C"])
       IN  /\ d0' = d[1] /\ d1' = d[2]
           /\ p_A' = m.p_A /\ negC' = m.negC /\ s_b' = m.s_b
           /\ d_0' = m.d_0 /\ d_1' = m.d_1
    /\ pc' = "split"
    /\ UNCHANGED <<xVars, args, mem, backend, calls, splitVars, nafVars, loopVars,
                   outWrites, results>>

\* Calculate the remaining scalars db, e_0 and e_1.
GenericSplit ==
    /\ pc = "split" /\ backend = "generic"
    /\ LET s == SplitScalar(ScMul(s_b, d_1))
       IN  /\ db' = ScMul(s_b, d_1)
           /\ dbBuf' = s.dbBuf /\ eBuf' = s.eBuf
           /\ e_0' = s.e_0 /\ e_1' = s.e_1
    /\ pc' = "naf"
    /\ UNCHANGED <<xVars, args, mem, backend, calls, signVars, nafVars, loopVars,
                   outWrites, results>>

\* Mutant of GenericNaf: out itself is set to the identity as the accumulator.
GenericNaf_OutAccumulator ==
    /\ pc = "naf" /\ backend = "generic"
    /\ d_0_naf' = NonAdjacentForm(d_0, 5)
    /\ e_0_naf' = NonAdjacentForm(e_0, 8)
    /\ e_1_naf' = NonAdjacentForm(e_1, 8)
    /\ d_1_naf' = NonAdjacentForm(d_1, 5)
    /\ i' = StartIndex(d_0_naf', e_0_naf', e_1_naf', d_1_naf', ScalarBits - 1)
    /\ tableA' = newProjectiveNielsPointNafLookupTable(p_A)
    /\ tableNegC' = newProjectiveNielsPointNafLookupTable(negC)
    /\ r' = Identity
    /\ mem' = [mem EXCEPT ![outRef] = Identity]
    /\ outWrites' = Append(outWrites, iterations)
    /\ pc' = "loop"
    /\ UNCHANGED <<xVars, args, backend, calls, signVars, splitVars, q, lookups,
                   iterations, results>>

\* Expand the four scalars, find the starting index, build the tables and
\* set the accumulator to the identity.
GenericNaf ==
    /\ pc = "naf" /\ backend = "generic"
    /\ d_0_naf' = NonAdjacentForm(d_0, 5)
    /\ e_0_naf' = NonAdjacentForm(e_0, 8)
    /\ e_1_naf' = NonAdjacentForm(e_1, 8)
    /\ d_1_naf' = NonAdjacentForm(d_1, 5)
    /\ i' = StartIndex(d_0_naf', e_0_naf', e_1_naf', d_1_naf', ScalarBits - 1)
    /\ tableA' = newProjectiveNielsPointNafLookupTable(p_A)
    /\ tableNegC' = newProjectiveNielsPointNafLookupTable(negC)
    /\ r' = Identity
    /\ pc' = "loop"
    /\ UNCHANGED <<xVars, args, mem, backend, calls, signVars, splitVars, q, lookups,
                   iterations, outWrites, results>>

\* One iteration of the loop: double, then the four tables' digits at i.
GenericLoop ==
    /\ pc = "loop" /\ backend = "generic"
    /\ LET t0 == PDouble(r)
           t1 == NielsDigit(t0, d_0_naf[i + 1], tableA)
           t2 == NielsDigit(t1.pt, e_0_naf[i + 1], constAFFINE_ODD_MULTIPLES_OF_BASEPOINT)
           t3 == NielsDigit(t2.pt, e_1_naf[i + 1], constAFFINE_ODD_MULTIPLES_OF_B_SHL_128)
           t4 == NielsDigit(t3.pt, d_1_naf[i + 1], tableNegC)
       IN  /\ r' = t4.pt
           /\ lookups' = [A |-> t1.arg, B |-> t2.arg, B_SHL_128 |-> t3.arg,
                          NegC |-> t4.arg]
    /\ iterations' = iterations + 1
    /\ IF i = 0
       THEN pc' = "ret" /\ i' = i
       ELSE pc' = "loop" /\ i' = i - 1
    /\ UNCHANGED <<xVars, args, mem, backend, calls, signVars, splitVars, nafVars, q,
                   outWrites, results>>

\* return out.setProjective(&r)
GenericReturn ==
    /\ pc = "ret" /\ backend = "generic"
    /\ mem' = [mem EXCEPT ![outRef] = r]
    /\ outWrites' = Append(outWrites, iterations)
    /\ results' = results \cup {<<backend, r>>}
    /\ pc' = "done"
    /\ UNCHANGED <<xVars, args, backend, calls, signVars, splitVars, nafVars, loopVars>>

\* ------------------------------------------------------------------------
\* edwardsMulAbglsvPorninVartimeVector.
\* ------------------------------------------------------------------------

VectorSigns ==
    /\ pc = "signs" /\ backend = "vector"
    /\ LET d == FindShortVector(a)
           m == MoveSigns(d, mem["A"], b, mem["C"])
       IN  /\ d0' = d[1] /\ d1' = d[2]
           /\ p_A' = m.p_A /\ negC' = m.negC /\ s_b' = m.s_b
           /\ d_0' = m.d_0 /\ d_1' = m.d_1
    /\ pc' = "split"
    /\ UNCHANGED <<xVars, args, mem, backend, calls, splitVars, nafVars, loopVars,
                   outWrites, results>>

VectorSplit ==
    /\ pc = "split" /\ backend = "vector"
    /\ LET s == SplitScalar(ScMul(s_b, d_1))
       IN  /\ db' = ScMul(s_b, d_1)
           /\ dbBuf' = s.dbBuf /\ eBuf' = s.eBuf
           /\ e_0' = s.e_0 /\ e_1' = s.e_1
    /\ pc' = "naf"
    /\ UNCHANGED <<xVars, args, mem, backend, calls, signVars, nafVars, loopVars,
                   outWrites, results>>

VectorNaf ==
    /\ pc = "naf" /\ backend = "vector"
    /\ d_0_naf' = NonAdjacentForm(d_0, 5)
    /\ e_0_naf' = NonAdjacentForm(e_0, 8)
    /\ e_1_naf' = NonAdjacentForm(e_1, 8)
    /\ d_1_naf' = NonAdjacentForm(d_1, 5)
    /\ i' = StartIndex(d_0_naf', e_0_naf', e_1_naf', d_1_naf', ScalarBits - 1)
    /\ tableA' = newCachedPointNafLookupTable(p_A)
    /\ tableNegC' = newCachedPointNafLookupTable(negC)
    /\ q' = Identity
    /\ pc' = "loop"
    /\ UNCHANGED <<xVars, args, mem, backend, calls, signVars, splitVars, r, lookups,
                   iterations, outWrites, results>>

VectorLoop ==
    /\ pc = "loop" /\ backend = "vector"
    /\ LET q0 == PDouble(q)
           q1 == CachedDigit(q0, d_0_naf[i + 1], tableA)
           q2 == CachedDigit(q1.pt, e_0_naf[i + 1], constVECTOR_ODD_MULTIPLES_OF_BASEPOINT)
           q3 == CachedDigit(q2.pt, e_1_naf[i + 1], constVECTOR_ODD_MULTIPLES_OF_B_SHL_128)
           q4 == CachedDigit(q3.pt, d_1_naf[i + 1], tableNegC)
       IN  /\ q' = q4.pt
           /\ lookups' = [A |-> q1.arg, B |-> q2.arg, B_SHL_128 |-> q3.arg,
                          NegC |-> q4.arg]
    /\ iterations' = iterations + 1
    /\ IF i = 0
       THEN pc' = "ret" /\ i' = i
       ELSE pc' = "loop" /\ i' = i - 1
    /\ UNCHANGED <<xVars, args, mem, backend, calls, signVars, splitVars, nafVars, r,
                   outWrites, results>>

\* return out.setExtended(&q)
VectorReturn ==
    /\ pc = "ret" /\ backend = "vector"
    /\ mem' = [mem EXCEPT ![outRef] = q]
    /\ outWrites' = Append(outWrites, iterations)
    /\ results' = results \cup {<<backend, q>>}
    /\ pc' = "done"
    /\ UNCHANGED <<xVars, args, backend, calls, signVars, splitVars, nafVars, loopVars>>

\* ------------------------------------------------------------------------
\* A further call on the same arguments, dispatched to the other function:
\* the caller passes A and C again, so the objects hold A0 and C0 anew.
\* ------------------------------------------------------------------------

CallAgain ==
    /\ pc = "done"
    /\ calls < MaxCalls
    /\ calls' = calls + 1
    /\ supportsVectorizedEdwards' = ~supportsVectorizedEdwards
    /\ mem' = [A |-> A0, C |-> C0, O |-> Identity]
    /\ pc' = "call"
    /\ backend' = "none"
    /\ FreshFrameNext
    /\ UNCHANGED <<xVars, a, b, A0, C0, outRef, results>>

EvalNext ==
    \/ Dispatch
    \/ GenericSigns \/ GenericSplit \/ GenericNaf \/ GenericLoop \/ GenericReturn
    \/ VectorSigns \/ VectorSplit \/ VectorNaf \/ VectorLoop \/ VectorReturn
    \/ CallAgain

\* ------------------------------------------------------------------------
\* Package x25519: the calls a client makes.
\* ------------------------------------------------------------------------

\* The package after init(): Basepoint = basePoint[:].
XInit ==
    /\ Basepoint = basePoint
    /\ xOp = "none"
    /\ xScalar = <<>> /\ xPoint = <<>> /\ xIsBasepoint = FALSE
    /\ xResult = NoResult
    /\ smDst = <<>>

\* No evaluator call in progress.
EvalIdle ==
    /\ a = 0 /\ b = 0 /\ A0 = Identity /\ C0 = Identity
    /\ outRef = "O" /\ supportsVectorizedEdwards = FALSE
    /\ mem = [A |-> Identity, C |-> Identity, O |-> Identity]
    /\ pc = "idle" /\ backend = "none" /\ calls = 0 /\ results = {}
    /\ FreshFrame

\* X25519(scalar, point) with point a slice of the caller's own.
X25519Other ==
    \E sc \in XScalars, pt \in XPoints :
        /\ xOp' = "X25519"
        /\ xScalar' = sc /\ xPoint' = pt /\ xIsBasepoint' = FALSE
        /\ xResult' = x25519(sc, pt, FALSE, Basepoint)
        /\ UNCHANGED <<evalVars, Basepoint, smDst>>

\* X25519(scalar, Basepoint[:n]): the point starts at &Basepoint[0].
X25519Basepoint ==
    \E sc \in XScalars, n \in 1..PointSize :
        /\ xOp' = "X25519"
        /\ xScalar' = sc /\ xPoint' = SubSeq(Basepoint, 1, n)
        /\ xIsBasepoint' = TRUE
        /\ xResult' = x25519(sc, SubSeq(Basepoint, 1, n), TRUE, Basepoint)
        /\ UNCHANGED <<evalVars, Basepoint, smDst>>

\* ScalarMult(&dst, &in, &base) on fixed-size arrays.
ScalarMultCall ==
    \E sc \in {x \in XScalars : Len(x) = ScalarSize},
       pt \in {x \in XPoints : Len(x) = PointSize} :
        /\ xOp' = "ScalarMult"
        /\ xScalar' = sc /\ xPoint' = pt /\ xIsBasepoint' = FALSE
        /\ smDst' = ScalarMult(sc, pt)
        /\ xResult' = NoResult
        /\ UNCHANGED <<evalVars, Basepoint>>

\* A client stores a byte into the exported slice Basepoint.
WriteBasepoint ==
    \E k \in 1..PointSize, v \in {0, 9} :
        /\ Basepoint[k] # v
        /\ Basepoint' = [Basepoint EXCEPT ![k] = v]
        /\ xOp' = "write"
        /\ xScalar' = <<>> /\ xPoint' = <<>> /\ xIsBasepoint' = FALSE
        /\ xResult' = NoResult
        /\ smDst' = <<>>
        /\ UNCHANGED evalVars

XNext == X25519Other \/ X25519Basepoint \/ ScalarMultCall \/ WriteBasepoint

vars == <<evalVars, xVars>>

\* The evaluator, called on a bounded set of arguments.
Init == EvalInit /\ XInit

Next == EvalNext

Spec == Init /\ [][Next]_vars

\* The x25519 package, called by a client.
InitX25519 == EvalIdle /\ XInit

SpecX25519 == InitX25519 /\ [][XNext]_vars

\* ------------------------------------------------------------------------
\* Properties of the evaluator (checked under Spec).
\* ------------------------------------------------------------------------

\* The point out holds.
Out == mem[outRef]

\* [sa]pA + [sb]B - pC.
Target(sa, pA, sb, pC) == PSub(PAdd(PMul(sa, pA), PMul(sb, B)), pC)

\* [x0]pA + [(sb*x1) mod L]B - [x1]pC.
ScaledTarget(x0, x1, pA, sb, pC) ==
    PSub(PAdd(PMul(x0, pA), PMul((sb * x1) % L, B)), PMul(x1, pC))

InSubgroup(P) == P[1] = 0

\* C1 as stated: the point written equals [a]A + [b]B - C.
C1_Unscaled == pc = "done" => Out = Target(a, A0, b, C0)

\* C1, amended: for A in the prime-order subgroup and any C, the point
\* written equals [d1]([a]A + [b]B - C), d1 the second component of the short
\* vector; it is [a]A + [b]B - C itself when d1 = 1.
C1_ScaledByD1 ==
    (pc = "done" /\ InSubgroup(A0)) =>
        /\ Out = PMul(d1, Target(a, A0, b, C0))
        /\ (d1 = 1 => Out = Target(a, A0, b, C0))

C1_Witness ==
    /\ pc = "done" /\ InSubgroup(A0) /\ ~InSubgroup(C0)
    /\ d1 \notin {-1, 0, 1}
    /\ Out # Target(a, A0, b, C0)
    /\ Out # Identity

\* C2: with (d0, d1) the short vector of a (d0 = a*d1 mod L), the result is
\* [d0]A + [(b*d1) mod L]B - [d1]C for every sign of d0 and d1: the sign of
\* d0 is on A', the sign of d1 on b (d1 < 0) or on C (d1 >= 0), and the
\* four-term sum [|d0|]A' + [e0]B + [e1]([2^128]B) + [|d1|]C' is that point.
C2_LatticeRewrite ==
    pc = "done" =>
        /\ (d0 - a * d1) % L = 0
        /\ Out = ScaledTarget(d0, d1, A0, b, C0)
        /\ d_0 = Abs(d0) /\ d_1 = Abs(d1)
        /\ p_A = (IF d0 < 0 THEN PNeg(A0) ELSE A0)
        /\ s_b = (IF d1 < 0 THEN ScNeg(b) ELSE b)
        /\ negC = (IF d1 < 0 THEN C0 ELSE PNeg(C0))
        /\ Out = PAdd(PAdd(PMul(d_0, p_A), PMul(e_0, B)),
                      PAdd(PMul(e_1, B_SHL_128), PMul(d_1, negC)))

C2_Witness ==
    /\ pc = "done" /\ d0 < 0 /\ d1 < 0
    /\ b > 1 /\ e_0 > 0 /\ e_1 > 0
    /\ ~InSubgroup(A0) /\ ~InSubgroup(C0)
    /\ Out # Identity

\* C3: for A and C in the prime-order subgroup the result is the identity
\* exactly when [a]A + [b]B - C is; d1 is nonzero and below L in magnitude.
C3_IdentityIff ==
    (pc = "done" /\ InSubgroup(A0) /\ InSubgroup(C0)) =>
        /\ d1 # 0 /\ Abs(d1) < L
        /\ (Out = Identity) <=> (Target(a, A0, b, C0) = Identity)

C3_Witness ==
    /\ pc = "done" /\ InSubgroup(A0) /\ InSubgroup(C0)
    /\ A0 # B /\ a > 2 /\ b > 1
    /\ Abs(d1) > 1
    /\ C0 # Identity
    /\ Out = Identity

C5_ZeroScalars ==
    pc = "done" =>
        /\ (a = 0 => Out = PSub(PMul(b, B), C0))
        /\ (b = 0 => Out = PSub(PMul(a, A0), C0))
        /\ (a = 0 /\ b = 0 => Out = PNeg(C0))

\* C5, amended: a = 0 yields [b]B - C and a = b = 0 yields -C (the short
\* vector of 0 is (0, 1)); b = 0 yields [d0]A - [d1]C, which for A in the
\* prime-order subgroup is [d1]([a]A - C), and is [a]A - C when d1 = 1.
C5_ZeroScalarsScaled ==
    pc = "done" =>
        /\ (a = 0 => d0 = 0 /\ d1 = 1 /\ Out = PSub(PMul(b, B), C0))
        /\ (a = 0 /\ b = 0 => Out = PNeg(C0))
        /\ (b = 0 => Out = PSub(PMul(d0, A0), PMul(d1, C0)))
        /\ (b = 0 /\ InSubgroup(A0) => Out = PMul(d1, PSub(PMul(a, A0), C0)))
        /\ (b = 0 /\ d1 = 1 /\ InSubgroup(A0) => Out = PSub(PMul(a, A0), C0))

C5_Witness ==
    /\ pc = "done" /\ b = 0 /\ a # 0 /\ d1 \notin {-1, 1}
    /\ InSubgroup(A0)
    /\ Out # PSub(PMul(a, A0), C0)

\* The arguments of scenario S2.
S2 == a = L - 1 /\ A0 = B /\ b = 1 /\ C0 = B

\* C6 as stated: on S2 the result is the identity.
C6_S2Identity == (pc = "done" /\ S2) => Out = Identity

\* C6, amended: on S2 the result is [d1](-B) with d1 = 1 or -1, that is B or
\* -B, and not the identity ([l-1]B + B - B = -B).
C6_S2Basepoint ==
    (pc = "done" /\ S2) =>
        /\ d1 \in {-1, 1}
        /\ Out = PMul(d1, PNeg(B))
        /\ Out \in {B, PNeg(B)}
        /\ Out # Identity

C6_Witness == pc = "done" /\ S2 /\ Out # Identity /\ iterations > 0

\* C7: within a call a and b do not change, no object but out's changes,
\* out's object changes only in the return statement, which is the single
\* write and follows the last loop iteration (i = 0); the result is that of
\* the caller's A and C also when out is A or C.
C7_Frame ==
    [][pc' # "call" =>
        /\ a' = a /\ b' = b /\ A0' = A0 /\ C0' = C0
        /\ \A o \in {"A", "C", "O"} : o # outRef => mem'[o] = mem[o]
        /\ (mem' # mem \/ outWrites' # outWrites) => (pc = "ret" /\ pc' = "done")
        /\ pc' \notin {"done"} => (outWrites' = <<>> /\ mem' = [A |-> A0, C |-> C0, O |-> Identity])
        /\ pc' = "done" =>
              /\ outWrites' = <<iterations'>> /\ i' = 0 /\ iterations' > 0
              /\ mem'[outRef] = ScaledTarget(d0', d1', A0, b, C0)
      ]_vars

C7_Witness ==
    /\ pc = "done" /\ outRef = "A" /\ mem["A"] # A0 /\ mem["C"] = C0
    /\ d0 < 0 /\ iterations > 1 /\ outWrites = <<iterations>>

\* The index the last iteration ran at.
Processed == IF pc = "loop" THEN i + 1 ELSE 0

\* The value of the digits of naf at the positions j and above.
High(naf, j) == NafValue(SubSeq(naf, j + 1, Len(naf)))

OddUpTo(n) == {x \in 1..n : x % 2 = 1}

Acc == IF backend = "generic" THEN r ELSE q

\* What Lookup is called with for a digit d.
Magnitude(d) == IF d = 0 THEN {} ELSE {Abs(d)}

\* C9: db = (s_b * |d1|) mod L is serialized little-endian, e_0 is its lower
\* and e_1 its upper half, each loaded with the upper half of the buffer zero:
\* db = e_0 + 2^128 * e_1, 0 <= e_0 < 2^128, 0 <= e_1 < 2^125, and both are
\* below L, so that no load changes its value by reduction.
C9_Split ==
    pc \in {"naf", "loop", "ret", "done"} =>
        /\ db = (s_b * Abs(d1)) % L
        /\ dbBuf = ToBytes(db) /\ FromBytes(dbBuf) = db
        /\ db = e_0 + (2 ^ HalfBits) * e_1
        /\ 0 <= e_0 /\ e_0 < 2 ^ HalfBits
        /\ 0 <= e_1 /\ e_1 < 2 ^ (HalfBits - 3)
        /\ e_0 = FromBytes(SubSeq(dbBuf, 1, HalfSize))
        /\ e_1 = FromBytes(SubSeq(dbBuf, HalfSize + 1, ScalarSize))
        /\ \A k \in (HalfSize + 1)..ScalarSize : eBuf[k] = 0
        /\ e_0 < L /\ e_1 < L

C9_Witness ==
    /\ pc = "naf" /\ e_0 > 2 ^ (HalfBits - 1) /\ e_1 > 1 /\ e_0 # e_1
    /\ db > 2 ^ (ScalarBits - 5)

\* C10: in every iteration, at every index from the starting index down to
\* 0, Lookup is called only with the magnitude of a nonzero digit: an odd
\* value in 1..15 for the tables of A' and C', an odd value in 1..127 for the
\* tables of B and [2^128]B; and the accumulator is the sum over the four
\* tables of the digits read so far, a negative digit subtracting the entry of
\* its magnitude.
C10_Lookups ==
    (pc \in {"loop", "ret"} /\ iterations > 0) =>
        LET j == Processed IN
        /\ lookups.A = Magnitude(d_0_naf[j + 1])
        /\ lookups.B = Magnitude(e_0_naf[j + 1])
        /\ lookups.B_SHL_128 = Magnitude(e_1_naf[j + 1])
        /\ lookups.NegC = Magnitude(d_1_naf[j + 1])
        /\ lookups.A \subseteq OddUpTo(15) /\ lookups.NegC \subseteq OddUpTo(15)
        /\ lookups.B \subseteq OddUpTo(127) /\ lookups.B_SHL_128 \subseteq OddUpTo(127)
        /\ \A x \in lookups.A \cup lookups.NegC : (x \div 2) + 1 \in 1..8
        /\ \A x \in lookups.B \cup lookups.B_SHL_128 : (x \div 2) + 1 \in 1..64
        /\ Acc = PAdd(PAdd(PMul(High(d_0_naf, j), p_A), PMul(High(e_0_naf, j), B)),
                      PAdd(PMul(High(e_1_naf, j), B_SHL_128),
                           PMul(High(d_1_naf, j), negC)))

C10_Witness ==
    /\ pc \in {"loop", "ret"} /\ iterations > 1
    /\ e_0_naf[Processed + 1] < 0 /\ \E x \in lookups.B : x > 15
    /\ d_0_naf[Processed + 1] # 0 /\ lookups.A # {}
    /\ Acc # Identity

\* ------------------------------------------------------------------------
\* Properties of package x25519 (checked under SpecX25519).
\* ------------------------------------------------------------------------

ZeroPoint == [k \in 1..PointSize |-> 0]

\* A point of order dividing the cofactor.
LowOrder(buf) == MontDecode(buf)[2] = 0

\* The cases in which X25519 is claimed to return an error.
X25519Fails ==
    \/ Len(xScalar) # ScalarSize
    \/ Len(xPoint) # PointSize
    \/ (~xIsBasepoint /\ ScalarMult(xScalar, xPoint) = ZeroPoint)

\* What holds of the error return, of the order of the length checks and of
\* ScalarMult on a low-order point.
X25519Errors ==
    /\ xOp = "X25519" =>
          /\ (xResult.kind = "err" /\ xResult.val = <<>>) <=> X25519Fails
          /\ Len(xScalar) # ScalarSize => xResult.err = "bad scalar length"
          /\ (Len(xScalar) = ScalarSize /\ Len(xPoint) # PointSize) =>
                xResult.err = "bad point length"
          /\ (Len(xScalar) = ScalarSize /\ Len(xPoint) = PointSize /\ ~xIsBasepoint) =>
                (LowOrder(xPoint) <=> ScalarMult(xScalar, xPoint) = ZeroPoint)
    /\ (xOp = "ScalarMult" /\ LowOrder(xPoint)) => smDst = ZeroPoint
    /\ (xOp = "ScalarMult" /\ ~LowOrder(xPoint)) => smDst # ZeroPoint

\* C8 as stated: X25519 returns (nil, error) exactly when a length is wrong
\* (the scalar's checked first) or point is not the Basepoint slice and the
\* ScalarMult output is all zeroes; in every other case it returns a slice of
\* PointSize bytes and a nil error; ScalarMult on a low-order point sets dst to
\* all zeroes.
C8_ErrorsOrSlice ==
    /\ X25519Errors
    /\ (xOp = "X25519" /\ ~X25519Fails) =>
          (xResult.kind = "ok" /\ Len(xResult.val) = PointSize)

\* C8, amended: as stated, except that in the other cases it returns a slice
\* of PointSize bytes and a nil error unless point is the Basepoint slice and
\* the bytes of the global Basepoint are no longer 9, 0, ..., 0: then, and only
\* then, the call panics.
C8_ErrorsSliceOrPanic ==
    /\ X25519Errors
    /\ (xOp = "X25519" /\ ~X25519Fails) =>
          IF xIsBasepoint /\ Basepoint # basePoint
          THEN xResult.kind = "panic"
          ELSE xResult.kind = "ok" /\ Len(xResult.val) = PointSize
                 /\ xResult.val # ZeroPoint
    /\ (xOp = "X25519" /\ xResult.kind = "panic") =>
          (xIsBasepoint /\ Basepoint # basePoint /\ ~X25519Fails)

C8_Witness ==
    /\ xOp = "X25519" /\ xResult.kind = "panic" /\ xIsBasepoint
    /\ Len(xScalar) = ScalarSize /\ Len(xPoint) = PointSize

=============================================================================
